---- MODULE Spec2Model ----
(***************************************************************************)
(* The libsvt_hevc encoder adapter of src/libavutil/list.h: eb_enc_init,   *)
(* eb_encode_frame and eb_enc_close, the per-frame metadata list they keep *)
(* and the EOS state they track, run against an external encoder that may  *)
(* buffer and reorder pictures.                                            *)
(***************************************************************************)
EXTENDS Integers, Sequences, FiniteSets, TLC

(***************************************************************************)
(* Bounds of the model.                                                    *)
(***************************************************************************)
\* number of real frames a run submits
MaxFrames == 2
\* number of environment faults a run injects: a picture the encoder rejects,
\* a dictionary that cannot be packed, a packet that cannot be allocated
MaxFaults == 1
\* number of frames read_in_data() is applied to in a row
MaxReads == 21
\* number of calls made on two encoder instances together
MaxCalls == 4

\* number of packets read from the raw-video demuxer instances together
MaxDmxReads == 3
\* number of calls made on the seg filter instances together
MaxSegCalls == 6
\* number of frames the roi filter is given
MaxRoiFrames == 2
\* number of list_add_tail and list_del calls made on one list
MaxListOps == 5

(***************************************************************************)
(* Program constants.                                                      *)
(***************************************************************************)
EOS_NOT_REACHED == 0
EOS_SENT == 1
EOS_RECEIVED == 2

EB_BUFFERFLAG_EOS == 1

ENOMEM == 12
EINVAL == 22
EAGAIN == 11
AVERROR_EXTERNAL == -542398533
AVERROR_UNKNOWN == -1313558101

FF_PROFILE_HEVC_MAIN == 1
FF_PROFILE_HEVC_MAIN_10 == 2
FF_PROFILE_HEVC_MAIN_STILL_PICTURE == 3
FF_PROFILE_HEVC_REXT == 4

EB_YUV420 == 1
EB_YUV422 == 2
EB_YUV444 == 3

AV_PKT_FLAG_KEY == 1
AV_PKT_FLAG_DISPOSABLE == 16

AVERROR(e) == -e

(***************************************************************************)
(* Inputs.                                                                 *)
(***************************************************************************)
\* presentation timestamps of the frames
PtsSet == {100, 200}

\* AVDictionary values of a frame: sequences of <<key, value>> pairs
Dicts == { << <<1, 1>> >>, << <<1, 2>> >> }
NoDict == << >>

NullFrame == [null |-> TRUE, pts |-> 0, metadata |-> NoDict]
Frames == [null : {FALSE}, pts : PtsSet, metadata : Dicts \cup {NoDict}]

PixFmts == {"YUV420P"}
Profiles == {FF_PROFILE_HEVC_MAIN, FF_PROFILE_HEVC_MAIN_STILL_PICTURE}
Widths == {4}
Heights == {2}

\* the rate-control fields EbInitHandle leaves in enc_params
LibDefault == [rateControlMode |-> 0, maxQpAllowed |-> 48, minQpAllowed |-> 10]
\* the rc option, and qmax and qmin of the codec context
RcModes == {0}
Qmaxs == {48}
Qmins == {10}

\* the inputs of the functions applied on their own: the pixel formats the
\* codec lists, the smallest and the largest picture the encoder takes
FnPixFmts == {"YUV420P", "YUV420P10", "YUV422P", "YUV444P", "YUV444P10"}
FnWidths == {4, 8192}
FnHeights == {2, 4320}
FnProfiles == {FF_PROFILE_HEVC_MAIN, FF_PROFILE_HEVC_MAIN_10,
               FF_PROFILE_HEVC_MAIN_STILL_PICTURE, FF_PROFILE_HEVC_REXT}
FnRcModes == {0, 1}
FnQmaxs == {40, 48}
FnLibDefaults == [rateControlMode : {0, 1}, maxQpAllowed : {48}, minQpAllowed : {10}]
\* linesize[0..2] of a frame
LineSizes == {<<8, 4, 4>>, <<16, 16, 16>>}
\* picture types of a descriptor
SliceTypes == {"EB_IDR_PICTURE", "EB_I_PICTURE", "EB_NON_REF_PICTURE",
               "EB_P_PICTURE", "EB_B_PICTURE", "EB_INVALID_PICTURE"}
DtsSet == {90, 100}
OutLens == {1, 5}

\* statuses the encoder's init-time calls report
InitStatuses == {"EB_ErrorNone", "EB_ErrorInsufficientResources", "EB_ErrorBadParameter"}
\* what a failing EbInitHandle leaves in the handle it was given to fill: the
\* NULL of the zeroed context, or the component it allocated
HandleLeft == {"NULL", "handle"}
\* statuses EbH265EncSendPicture reports
SendStatuses == {"EB_ErrorNone", "EB_ErrorBadParameter"}
\* the statuses error_mapping() names, and three it does not name
AllStatuses ==
    {"EB_ErrorNone", "EB_ErrorInsufficientResources", "EB_ErrorUndefined",
     "EB_ErrorInvalidComponent", "EB_ErrorBadParameter", "EB_ErrorDestroyThreadFailed",
     "EB_ErrorSemaphoreUnresponsive", "EB_ErrorDestroySemaphoreFailed",
     "EB_ErrorCreateMutexFailed", "EB_ErrorMutexUnresponsive",
     "EB_ErrorDestroyMutexFailed", "EB_NoErrorEmptyQueue",
     "EB_ErrorCreateThreadFailed", "EB_ErrorCreateSemaphoreFailed", "EB_ErrorMax"}
\* statuses EbH265GetPacket reports
PollStatuses == {"EB_ErrorNone", "EB_NoErrorEmptyQueue", "EB_ErrorBadParameter"}

\* values of a descriptor's nFlags word: the EOS bit and one more bit
FlagValues == {0, EB_BUFFERFLAG_EOS, 2 * EB_BUFFERFLAG_EOS, 3 * EB_BUFFERFLAG_EOS}
\* nFlags has the EOS bit set
HasEos(flags) == (flags \div EB_BUFFERFLAG_EOS) % 2 = 1

NoSide == << >>
NullHdr == [null |-> TRUE, pts |-> 0, nFlags |-> 0]
NoPkt == [null |-> TRUE, pts |-> 0, side_data |-> NoSide]

VARIABLES
    state,      \* "new", "open", "init_failed", "closed", "crashed"
    eos_flag,   \* SvtContext.eos_flag
    in_buf,     \* SvtContext.in_buf
    enc_params, \* SvtContext.enc_params
    svt_handle, \* SvtContext.svt_handle: "NULL" or "handle"
    list,       \* SvtContext.list: the EB_FRAMEMETADATA entries, head first
    scratch,    \* the EB_H265_ENC_INPUT allocation: "none", "live", "freed"
    encQ,       \* encoder: timestamps of the pictures it holds
    encEos,     \* encoder: it has taken the EOS picture
    encDone,    \* encoder: it has handed out its last packet, the one with EOS
    encUp,      \* encoder: "none", "handle", "encoder" (how far init got)
    last,       \* the last entry-point call: arguments, results, trace
    sent,       \* history: the real frames passed to EbH265EncSendPicture
    out,        \* history: the packets delivered to the caller
    eosSends,   \* history: number of EOS pictures passed to the encoder
    dupFirst,   \* history: per timestamp, the pending payload a duplicate met
    faults,     \* history: number of environment faults injected so far
    fn,         \* the pure functions applied on their own: inputs and results
    peer,       \* a second encoder instance: which one the variables above
                \* hold, and the other one's variables, put aside
    dmx,        \* the raw-video demuxer: its static count, its instances
    seg,        \* the seg filter: its static flag, the interpreter, its instances
    roi,        \* the roi filter: its context, the filter thread, the callback
    lst         \* a list of list.h at the level of its next and prev pointers

\* the variables of one encoder instance and of its encoder
instVars == <<state, eos_flag, in_buf, enc_params, svt_handle, list, scratch,
              encQ, encEos, encDone, encUp, last, sent, out, eosSends, dupFirst, faults>>

\* the variables of the files next to the adapter
auxVars == <<dmx, seg, roi, lst>>

vars == <<instVars, fn, peer, auxVars>>

ctxVars == <<eos_flag, in_buf, enc_params, svt_handle, list, scratch>>
encVars == <<encQ, encEos, encDone, encUp>>
histVars == <<sent, out, eosSends, dupFirst>>
Fault(b) == IF b THEN 0 ELSE 1

(***************************************************************************)
(* Pure helpers.                                                           *)
(***************************************************************************)
\* a build whose error_mapping() reports the creation of a mutex that failed
\* as a lack of resources
error_mapping_create_is_nomem(svt_ret) ==
    CASE svt_ret \in {"EB_ErrorInsufficientResources", "EB_ErrorCreateMutexFailed"}
            -> AVERROR(ENOMEM)
      [] svt_ret \in {"EB_ErrorUndefined", "EB_ErrorInvalidComponent",
                      "EB_ErrorBadParameter"} -> AVERROR(EINVAL)
      [] svt_ret \in {"EB_ErrorDestroyThreadFailed", "EB_ErrorSemaphoreUnresponsive",
                      "EB_ErrorDestroySemaphoreFailed", "EB_ErrorMutexUnresponsive",
                      "EB_ErrorDestroyMutexFailed"} -> AVERROR_EXTERNAL
      [] svt_ret = "EB_NoErrorEmptyQueue" -> AVERROR(EAGAIN)
      [] svt_ret = "EB_ErrorNone" -> 0
      [] OTHER -> AVERROR_UNKNOWN

\* error_mapping(): encoder status to AVERROR code
error_mapping(svt_ret) ==
    CASE svt_ret = "EB_ErrorInsufficientResources" -> AVERROR(ENOMEM)
      [] svt_ret \in {"EB_ErrorUndefined", "EB_ErrorInvalidComponent",
                      "EB_ErrorBadParameter"} -> AVERROR(EINVAL)
      [] svt_ret \in {"EB_ErrorDestroyThreadFailed", "EB_ErrorSemaphoreUnresponsive",
                      "EB_ErrorDestroySemaphoreFailed", "EB_ErrorCreateMutexFailed",
                      "EB_ErrorMutexUnresponsive", "EB_ErrorDestroyMutexFailed"}
            -> AVERROR_EXTERNAL
      [] svt_ret = "EB_NoErrorEmptyQueue" -> AVERROR(EAGAIN)
      [] svt_ret = "EB_ErrorNone" -> 0
      [] OTHER -> AVERROR_UNKNOWN

\* av_packet_pack_dictionary(): key '\0' value '\0' for every pair, in order
RECURSIVE Pack(_)
Pack(dict) ==
    IF dict = << >> THEN << >>
    ELSE << Head(dict)[1], 0, Head(dict)[2], 0 >> \o Pack(Tail(dict))

\* a build that inserts with list_add(): the new entry goes right after the
\* head, i.e. first
list_add(new, head) == <<new>> \o head

\* list_add_tail(): the new entry goes in front of the head, i.e. last
list_add_tail(new, head) == Append(head, new)

\* list_del(): unlink the k-th entry
list_del(k, head) == [j \in 1..(Len(head) - 1) |-> IF j < k THEN head[j] ELSE head[j + 1]]

\* the bit depth config_enc_params() derives from the pixel format
BitDepthOf(pix_fmt) ==
    IF pix_fmt \in {"YUV420P10", "YUV422P10", "YUV444P10"} THEN 10 ELSE 8

\* the colour format config_enc_params() derives from the pixel format
ColorFormatOf(pix_fmt) ==
    IF pix_fmt \in {"YUV420P", "YUV420P10"} THEN EB_YUV420
    ELSE IF pix_fmt \in {"YUV422P", "YUV422P10"} THEN EB_YUV422
    ELSE EB_YUV444

\* a build whose config_enc_params() accepts every profile
config_enc_params_any_profile(avctx) ==
    [ret |-> "EB_ErrorNone",
     param |-> [sourceWidth |-> avctx.width, sourceHeight |-> avctx.height,
                encoderBitDepth |-> BitDepthOf(avctx.pix_fmt),
                encoderColorFormat |-> ColorFormatOf(avctx.pix_fmt),
                profile |-> avctx.profile,
                rateControlMode |-> avctx.rc_mode,
                maxQpAllowed |-> avctx.lib.maxQpAllowed,
                minQpAllowed |-> avctx.lib.minQpAllowed]]

\* config_enc_params(): the status it returns and the parameters it leaves
config_enc_params(avctx) ==
    LET depth == BitDepthOf(avctx.pix_fmt)
        color == ColorFormatOf(avctx.pix_fmt)
        p1 == IF color >= EB_YUV422 /\ avctx.profile # FF_PROFILE_HEVC_REXT
              THEN FF_PROFILE_HEVC_REXT ELSE avctx.profile
        p2 == IF p1 = FF_PROFILE_HEVC_MAIN /\ depth > 8
              THEN FF_PROFILE_HEVC_MAIN_10 ELSE p1
        \* avctx.lib: the fields as EbInitHandle left them
        early == [sourceWidth |-> avctx.width, sourceHeight |-> avctx.height,
                  encoderBitDepth |-> depth, encoderColorFormat |-> color,
                  profile |-> avctx.profile,
                  rateControlMode |-> avctx.lib.rateControlMode,
                  maxQpAllowed |-> avctx.lib.maxQpAllowed,
                  minQpAllowed |-> avctx.lib.minQpAllowed]
        \* line 270 tests the mode before line 283 stores the rc option
        rc == early.rateControlMode # 0
    IN  IF avctx.profile = FF_PROFILE_HEVC_MAIN_STILL_PICTURE
        THEN [ret |-> "EB_ErrorBadParameter", param |-> early]
        ELSE [ret |-> "EB_ErrorNone",
              param |-> [early EXCEPT
                           !.profile = p2,
                           !.maxQpAllowed = IF rc THEN avctx.qmax ELSE @,
                           !.minQpAllowed = IF rc THEN avctx.qmin ELSE @,
                           !.rateControlMode = avctx.rc_mode]]

\* read_in_data(): the size it adds to nFilledLen (3/2u is integer division).
\* The sizes of the model stay far below the 32 bits of the C operands.
FrameSize(config) ==
    LET is16bit == IF config.encoderBitDepth > 8 THEN 1 ELSE 0
        base == (config.sourceWidth * config.sourceHeight) * (2^is16bit)
    IN  IF config.encoderColorFormat = EB_YUV420 THEN base * (3 \div 2)
        ELSE IF config.encoderColorFormat = EB_YUV422 THEN base * 2
        ELSE base * 3

\* A 32-bit unsigned value as two 16-bit halves (the integers of TLC are
\* themselves 32 bits wide): the value n, for 0 <= n < 2^31
U32(n) == [hi |-> (n \div 65536) % 65536, lo |-> n % 65536]

\* a + b in 32 bits, the carry out of the upper half dropped
Add32(a, b) ==
    LET lo == a.lo + b.lo
        hi == a.hi + b.hi + (lo \div 65536)
    IN  [hi |-> hi % 65536, lo |-> lo % 65536]

\* read_in_data(): a plane's stride, linesize >> is16bit
Stride(linesize, is16bit) == linesize \div (2 ^ is16bit)

\* read_in_data() on the input descriptor: the strides of the frame and the
\* frame size added to the 32-bit nFilledLen
read_in_data(config, frame, header) ==
    LET is16bit == IF config.encoderBitDepth > 8 THEN 1 ELSE 0
    IN  [header EXCEPT
           !.yStride = Stride(frame.linesize[1], is16bit),
           !.cbStride = Stride(frame.linesize[2], is16bit),
           !.crStride = Stride(frame.linesize[3], is16bit),
           !.nFilledLen = Add32(@, U32(FrameSize(config)))]

\* a build that sets the key flag for IDR pictures only
PacketFieldsKeyOnIdr(header) ==
    [size |-> header.nFilledLen, pts |-> header.pts, dts |-> header.dts,
     flags |-> IF header.sliceType = "EB_IDR_PICTURE" THEN AV_PKT_FLAG_KEY
               ELSE IF header.sliceType = "EB_NON_REF_PICTURE"
               THEN AV_PKT_FLAG_DISPOSABLE ELSE 0]

\* lines 481-490: the fields of the packet filled from the descriptor, the
\* flags or-ed onto those of a fresh packet
PacketFields(header) ==
    [size |-> header.nFilledLen, pts |-> header.pts, dts |-> header.dts,
     flags |-> (IF header.sliceType \in {"EB_IDR_PICTURE", "EB_I_PICTURE"}
                THEN AV_PKT_FLAG_KEY ELSE 0)
               + (IF header.sliceType = "EB_NON_REF_PICTURE"
                  THEN AV_PKT_FLAG_DISPOSABLE ELSE 0)]

(***************************************************************************)
(* Initial state: a zeroed SvtContext before eb_enc_init.                  *)
(***************************************************************************)
ZeroBuf == [pBuffer |-> "NULL", nFilledLen |-> 0, pts |-> 0, nFlags |-> 0]
ZeroParams == [sourceWidth |-> 0, sourceHeight |-> 0, encoderBitDepth |-> 0,
               encoderColorFormat |-> 0, profile |-> 0, rateControlMode |-> 0,
               maxQpAllowed |-> 0, minQpAllowed |-> 0]

NoCall == [op |-> "none", frame |-> NullFrame, ret |-> 0, got_packet |-> 0,
           pkt |-> NoPkt, trace |-> << >>, eos_at_poll |-> EOS_NOT_REACHED,
           list_at_poll |-> << >>, polled |-> FALSE, svt_ret |-> "EB_ErrorNone",
           hdr |-> NullHdr, returned |-> TRUE, send_ret |-> "EB_ErrorNone",
           init_fail |-> "none"]

\* no pure function has been applied
FnAvctxs == [pix_fmt : FnPixFmts, profile : FnProfiles, width : FnWidths,
             height : FnHeights, global_header : {FALSE}, rc_mode : FnRcModes,
             qmax : FnQmaxs, qmin : Qmins, lib : FnLibDefaults]
FnBuf == [nFilledLen |-> U32(0), yStride |-> 0, cbStride |-> 0, crStride |-> 0]
FnHdr == [pts |-> 0, dts |-> 0, nFilledLen |-> 0, sliceType |-> "EB_INVALID_PICTURE"]
NoFn == [op |-> "none", svt_ret |-> "EB_ErrorNone", ret |-> 0,
         avctx |-> [pix_fmt |-> "YUV420P", profile |-> FF_PROFILE_HEVC_MAIN,
                    width |-> 0, height |-> 0, global_header |-> FALSE, rc_mode |-> 0,
                    qmax |-> 0, qmin |-> 0, lib |-> LibDefault],
         cfg_ret |-> "EB_ErrorNone", param |-> ZeroParams,
         in_buf |-> FnBuf, frame |-> [linesize |-> <<0, 0, 0>>], reads |-> 0,
         header |-> FnHdr, pkt |-> PacketFields(FnHdr)]

\* an encoder instance before eb_enc_init
NewInst ==
    [state |-> "new", eos_flag |-> EOS_NOT_REACHED, in_buf |-> ZeroBuf,
     enc_params |-> ZeroParams, svt_handle |-> "NULL", list |-> << >>,
     scratch |-> "none", encQ |-> << >>, encEos |-> FALSE, encDone |-> FALSE,
     encUp |-> "none", last |-> NoCall, sent |-> << >>, out |-> << >>, eosSends |-> 0,
     dupFirst |-> [t \in PtsSet |-> NoSide], faults |-> 0]

\* the encoder instance the variables hold
ThisInst ==
    [state |-> state, eos_flag |-> eos_flag, in_buf |-> in_buf,
     enc_params |-> enc_params, svt_handle |-> svt_handle, list |-> list,
     scratch |-> scratch, encQ |-> encQ, encEos |-> encEos, encDone |-> encDone,
     encUp |-> encUp, last |-> last, sent |-> sent, out |-> out, eosSends |-> eosSends,
     dupFirst |-> dupFirst, faults |-> faults]

Instances == {"A", "B"}
\* a single instance, as in the runs of one encoder
NoPeer == [two |-> FALSE, self |-> "A", saved |-> NewInst, calls |-> 0]

\* a build that keeps the metadata list in a file-scope variable, shared by
\* all instances
OtherInstanceSharesList(saved, head) == [saved EXCEPT !.list = head]

\* what a call leaves of another instance: the entry points reach state only
\* through avctx->priv_data, their own SvtContext (head: the list they leave)
OtherInstance(saved, head) == saved

\* the environment faults a run may inject
FaultBudget == MaxFaults

\* the frames a call is given (NullFrame: the end-of-stream call); in the runs
\* of two instances every frame carries the same dictionary
CallFrames ==
    IF peer.two
    THEN {f \in Frames : f.metadata = << <<1, 1>> >>} \cup {NullFrame}
    ELSE Frames \cup {NullFrame}

\* with two instances, the calls made on them are counted and bounded
CallAllowed == peer.two => peer.calls < MaxCalls

\* what a call on the encoder instance leaves of the rest of the model
Aside ==
    /\ fn' = fn
    /\ UNCHANGED auxVars
    /\ peer' = IF peer.two
               THEN [peer EXCEPT !.calls = @ + 1, !.saved = OtherInstance(@, list')]
               ELSE peer

\* the raw-video demuxer before any read: the static last_inserted_cnt is 0
\* and no AVFormatContext has a dictionary
NoDmx == [last_inserted_cnt |-> 0,
          metadata |-> [x \in Instances |-> [null |-> TRUE, elems |-> << >>]],
          own |-> [x \in Instances |-> 0],
          reads |-> << >>]

\* a seg filter instance before seg_init: a zeroed SEGContext
NewSeg == [st |-> "new", py_module |-> "NULL", py_init |-> "NULL", py_seg |-> "NULL",
           did_init |-> FALSE]

\* the seg filter before any call: first_time is 1, no interpreter
NoSeg == [first_time |-> 1, py |-> FALSE, inits |-> 0, finals |-> 0, calls |-> 0,
          inst |-> [x \in Instances |-> NewSeg],
          last |-> [op |-> "none", inst |-> "A", ret |-> 0, py |-> FALSE,
                    ctx |-> NewSeg]]

\* width and height of the frames the roi filter is given
RoiW == 4
RoiH == 3

\* the ROI fields of a zeroed ROIContext
ZeroRoi == [left |-> 0, top |-> 0, width |-> 0, height |-> 0]
\* lines 252-255: the default ROI, the full frame
DefaultRoi == [left |-> 0, top |-> 0, width |-> RoiW, height |-> RoiH]
NoRect == [x |-> 0, y |-> 0, width |-> 0, height |-> 0]

\* the roi filter after roi_init: no frame filtered, no identification under
\* way, no signal pending
NoRoi == [ctx |-> ZeroRoi, recorded |-> ZeroRoi, pc |-> "idle", frame |-> 0,
          signalled |-> FALSE,
          pending |-> {}, cb |-> [pc |-> "idle", frame |-> 0, rect |-> NoRect],
          sig |-> FALSE, rects |-> << >>, meta |-> << >>,
          fn |-> [op |-> "none", rect |-> NoRect, out |-> ZeroRoi]]

\* the list head and the nodes (struct list_head) linked into it
ListNodes == {"n1", "n2", "n3", "n4"}
ListHead == "head"
LIST_POISON1 == "LIST_POISON1"
LIST_POISON2 == "LIST_POISON2"

\* INIT_LIST_HEAD(): next and prev of the head point to the head; the nodes
\* are not linked yet
INIT_LIST_HEAD ==
    [next |-> [n \in ListNodes \cup {ListHead} |-> IF n = ListHead THEN ListHead ELSE "NULL"],
     prev |-> [n \in ListNodes \cup {ListHead} |-> IF n = ListHead THEN ListHead ELSE "NULL"]]

\* the list after INIT_LIST_HEAD: order and removed keep, for the properties,
\* the nodes in the order they were added and the nodes that were unlinked
NoLst == [ptr |-> INIT_LIST_HEAD, order |-> << >>, removed |-> {}, ops |-> 0]

InitAux == dmx = NoDmx /\ seg = NoSeg /\ roi = NoRoi /\ lst = NoLst

InitInst ==
    /\ state = "new"
    /\ eos_flag = EOS_NOT_REACHED
    /\ in_buf = ZeroBuf
    /\ enc_params = ZeroParams
    /\ svt_handle = "NULL"
    /\ list = << >>
    /\ scratch = "none"
    /\ encQ = << >>
    /\ encEos = FALSE
    /\ encDone = FALSE
    /\ encUp = "none"
    /\ last = NoCall
    /\ sent = << >>
    /\ out = << >>
    /\ eosSends = 0
    /\ dupFirst = [t \in PtsSet |-> NoSide]
    /\ faults = 0

Init == InitInst /\ fn = NoFn /\ peer = NoPeer /\ InitAux

(***************************************************************************)
(* eb_enc_init                                                             *)
(***************************************************************************)
\* alloc_buffer(): the status it returns, alloc_ok telling whether av_mallocz
\* gave memory
alloc_buffer(alloc_ok) ==
    IF alloc_ok THEN "EB_ErrorNone" ELSE "EB_ErrorInsufficientResources"

\* the label failed_init_handle: what eb_enc_init undoes there
failed_init_handle == <<"EbDeinitHandle">>

\* a build whose later failures jump to failed_init_handle
failed_init_encoder_skipped == failed_init_handle

\* the label failed_init_encoder: it falls through to failed_init_handle
failed_init_encoder == <<"EbDeinitEncoder">> \o failed_init_handle

\* r_handle, r_set, r_enc, r_hdr: the statuses of EbInitHandle,
\* EbH265EncSetParameter, EbInitEncoder and EbH265EncStreamHeader;
\* extra_ok, alloc_ok: whether av_malloc / av_mallocz succeed
InitOutcome(avctx, r_handle, r_set, r_enc, r_hdr, extra_ok, alloc_ok) ==
    LET cfg == config_enc_params(avctx)
        r_alloc == alloc_buffer(alloc_ok)
        r_extra == IF extra_ok THEN "EB_ErrorNone" ELSE "EB_ErrorInsufficientResources"
        failH(st, tr, par, at) ==
            [ok |-> FALSE, ret |-> error_mapping(st), param |-> par,
             trace |-> tr \o failed_init_handle, alloc |-> FALSE, fail |-> at]
        failE(st, tr, par, at) ==
            [ok |-> FALSE, ret |-> error_mapping(st), param |-> par,
             trace |-> tr \o failed_init_encoder, alloc |-> FALSE, fail |-> at]
        t1 == <<"EbInitHandle">>
        t2 == t1 \o <<"EbH265EncSetParameter">>
        t3 == t2 \o <<"EbInitEncoder">>
        t4 == IF avctx.global_header THEN t3 \o <<"EbH265EncStreamHeader">> ELSE t3
    IN  IF r_handle # "EB_ErrorNone"
        THEN [ok |-> FALSE, ret |-> error_mapping(r_handle), param |-> ZeroParams,
              trace |-> t1, alloc |-> FALSE, fail |-> "EbInitHandle"]
        ELSE IF cfg.ret # "EB_ErrorNone"
        THEN failH(cfg.ret, t1, cfg.param, "config_enc_params")
        ELSE IF r_set # "EB_ErrorNone"
        THEN failH(r_set, t2, cfg.param, "EbH265EncSetParameter")
        ELSE IF r_enc # "EB_ErrorNone"
        THEN failH(r_enc, t3, cfg.param, "EbInitEncoder")
        ELSE IF avctx.global_header /\ r_hdr # "EB_ErrorNone"
        THEN failE(r_hdr, t4, cfg.param, "EbH265EncStreamHeader")
        ELSE IF avctx.global_header /\ ~extra_ok
        THEN failE(r_extra, t4, cfg.param, "av_malloc")
        ELSE IF r_alloc # "EB_ErrorNone"
        THEN failE(r_alloc, t4, cfg.param, "alloc_buffer")
        ELSE [ok |-> TRUE, ret |-> 0, param |-> cfg.param, trace |-> t4,
              alloc |-> alloc_ok, fail |-> "none"]

\* eb_enc_init returns at the first step that fails: the outcomes of the
\* steps it does not come to are not drawn (they are left at success)
StepsReached(avctx, r_handle, r_set, r_enc, r_hdr, extra_ok, alloc_ok) ==
    LET ok(st) == st = "EB_ErrorNone"
        a1 == ok(r_handle)
        a2 == a1 /\ ok(config_enc_params(avctx).ret)
        a3 == a2 /\ ok(r_set)
        a4 == a3 /\ ok(r_enc) /\ avctx.global_header
        a5 == a4 /\ ok(r_hdr)
        a6 == a3 /\ ok(r_enc) /\ (avctx.global_header => (ok(r_hdr) /\ extra_ok))
    IN  /\ ~a2 => ok(r_set)
        /\ ~a3 => ok(r_enc)
        /\ ~a4 => ok(r_hdr)
        /\ ~a5 => extra_ok
        /\ ~a6 => alloc_ok

eb_enc_init ==
    /\ state = "new"
    /\ CallAllowed
    /\ \E avctx \in [pix_fmt : PixFmts, profile : Profiles, width : Widths,
                     height : Heights, global_header : BOOLEAN, rc_mode : RcModes,
                     qmax : Qmaxs, qmin : Qmins, lib : {LibDefault}],
          r_handle \in InitStatuses, r_set \in InitStatuses, r_enc \in InitStatuses,
          r_hdr \in InitStatuses, extra_ok \in BOOLEAN, alloc_ok \in BOOLEAN,
          left \in HandleLeft :
          /\ StepsReached(avctx, r_handle, r_set, r_enc, r_hdr, extra_ok, alloc_ok)
          /\ r_handle = "EB_ErrorNone" => left = "NULL"
          /\ LET o == InitOutcome(avctx, r_handle, r_set, r_enc, r_hdr, extra_ok, alloc_ok)
             IN  /\ state' = IF o.ok THEN "open" ELSE "init_failed"
                 /\ eos_flag' = EOS_NOT_REACHED
                 /\ enc_params' = o.param
                 /\ in_buf' = IF o.ok THEN [ZeroBuf EXCEPT !.pBuffer = "in_data"] ELSE ZeroBuf
                 /\ scratch' = IF o.alloc THEN "live" ELSE "none"
                 \* line 349 returns with svt_handle as EbInitHandle left it,
                 \* line 403 sets it to NULL
                 /\ svt_handle' = IF o.ok THEN "handle"
                                  ELSE IF o.fail = "EbInitHandle" THEN left ELSE "NULL"
                 /\ encUp' = IF o.ok THEN "encoder" ELSE "none"
                 /\ list' = << >>
                 /\ last' = [NoCall EXCEPT !.op = "init", !.ret = o.ret, !.trace = o.trace,
                                           !.init_fail = o.fail]
                 /\ UNCHANGED <<encQ, encEos, encDone, histVars, faults>>
    /\ Aside

(***************************************************************************)
(* eb_enc_close                                                            *)
(***************************************************************************)
eb_enc_close ==
    /\ state \in {"open", "init_failed"}
    /\ CallAllowed
    /\ state' = "closed"
    \* free_buffer() frees what in_buf.pBuffer points to
    /\ scratch' = IF in_buf.pBuffer = "in_data" THEN "freed" ELSE scratch
    /\ svt_handle' = "NULL"
    /\ encUp' = IF svt_handle # "NULL" THEN "none" ELSE encUp
    /\ last' = [NoCall EXCEPT !.op = "close", !.ret = 0,
                              !.trace = IF svt_handle # "NULL"
                                        THEN <<"EbDeinitEncoder", "EbDeinitHandle">>
                                        ELSE << >>]
    /\ UNCHANGED <<eos_flag, in_buf, enc_params, list, encQ, encEos, encDone, histVars,
                   faults>>
    /\ Aside


(***************************************************************************)
(* The external encoder: it holds the pictures it has accepted, emits them *)
(* in any order, keeps one back until the EOS picture has arrived and sets *)
(* the EOS bit on the last packet it emits.                                *)
(***************************************************************************)
EncCanEmit(q, eos) == Len(q) >= 2 \/ (eos /\ Len(q) >= 1)
EncFlagsOk(q, eos, flags) == HasEos(flags) <=> (eos /\ Len(q) = 1)
EncRemove(q, i) == [j \in 1..(Len(q) - 1) |-> IF j < i THEN q[j] ELSE q[j + 1]]

(***************************************************************************)
(* eb_encode_frame                                                         *)
(***************************************************************************)
\* a build without the early return of line 420
AlreadyDrainedNever(eos) == FALSE

\* line 420: the drain has completed, nothing more to do
AlreadyDrained(eos) == eos = EOS_RECEIVED

\* a build that sends the EOS picture on every end-of-stream call
SendsEosAlways(eos) == TRUE

\* line 426: the EOS picture is sent only while eos_flag is EOS_NOT_REACHED
SendsEos(eos) == eos = EOS_NOT_REACHED

\* a build without the scan of lines 448-452
DuplicateGuardNever(head, pts) == FALSE

\* lines 448-452: an entry with the frame's pts is already in the list
DuplicateGuard(head, pts) == \E i \in 1..Len(head) : head[i].pts = pts

\* a build that stores the duplicate's payload in the pending entry
OnDuplicateReplace(head, entry) ==
    [j \in 1..Len(head) |-> IF head[j].pts = entry.pts THEN entry ELSE head[j]]

\* lines 450-451: what a duplicate submission leaves in the list
OnDuplicate(head, entry) == head

\* a build that takes the head of the list, as a queue would
FindEntryHead(head, pts) == IF Len(head) > 0 THEN 1 ELSE 0

\* lines 497-499: the first entry whose pts equals the packet's, 0 when none
FindEntry(head, pts) ==
    IF \E i \in 1..Len(head) : head[i].pts = pts
    THEN CHOOSE i \in 1..Len(head) :
            /\ head[i].pts = pts
            /\ \A j \in 1..(i - 1) : head[j].pts # pts
    ELSE 0

\* line 500: the entry's payload is attached (and the entry freed)
Attaches(p) == p.metadata # << >> /\ p.size > 0

\* a build without the empty-queue test of line 466
IsEmptyQueueNever(svt_ret) == FALSE

\* line 466: the poll found nothing to deliver
IsEmptyQueue(svt_ret) == svt_ret = "EB_NoErrorEmptyQueue"

\* a build that passes the empty-queue status through error_mapping()
EmptyQueueReturnMapped(svt_ret) == error_mapping(svt_ret)

\* lines 467-469: what the call reports on an empty queue
EmptyQueueReturn(svt_ret) == 0

\* line 516: the test that moves eos_flag to EOS_RECEIVED
SeesEos(nFlags) == nFlags = EB_BUFFERFLAG_EOS

\* lines 425-461: the submission half of the call, as the values it leaves
Submit(frame, send_ret, pack_ok) ==
    LET submitEos == frame.null /\ SendsEos(eos_flag)
        sends == submitEos \/ ~frame.null
        accepted == sends /\ send_ret = "EB_ErrorNone"
        hasMeta == ~frame.null /\ frame.metadata # NoDict
        dup == hasMeta /\ DuplicateGuard(list, frame.pts)
        payload == IF hasMeta /\ pack_ok THEN Pack(frame.metadata) ELSE << >>
        entry == [pts |-> frame.pts, metadata |-> payload, size |-> Len(payload)]
    IN  [eos |-> IF submitEos THEN EOS_SENT ELSE eos_flag,
         in_buf |-> IF submitEos
                    THEN [in_buf EXCEPT !.nFilledLen = 0, !.pBuffer = "NULL",
                                        !.nFlags = EB_BUFFERFLAG_EOS]
                    ELSE IF ~frame.null
                    THEN [in_buf EXCEPT
                            !.nFilledLen = @ + FrameSize(enc_params),
                            !.pts = frame.pts]
                    ELSE in_buf,
         list |-> IF dup THEN OnDuplicate(list, entry)
                  ELSE IF hasMeta THEN list_add_tail(entry, list)
                  ELSE list,
         early |-> dup,
         trace |-> IF sends THEN <<"EbH265EncSendPicture">> ELSE << >>,
         encQ |-> IF ~frame.null /\ accepted THEN Append(encQ, frame.pts) ELSE encQ,
         encEos |-> encEos \/ (submitEos /\ accepted),
         sent |-> IF ~frame.null
                  THEN Append(sent, [pts |-> frame.pts, payload |-> payload])
                  ELSE sent,
         eosSends |-> IF submitEos THEN eosSends + 1 ELSE eosSends,
         send_ret |-> IF sends THEN send_ret ELSE "EB_ErrorNone",
         faults |-> Fault(send_ret = "EB_ErrorNone") + Fault(pack_ok),
         dupFirst |-> IF dup
                      THEN [dupFirst EXCEPT
                              ![frame.pts] = list[FindEntry(list, frame.pts)].metadata]
                      ELSE dupFirst]

\* a build that passes EOS_NOT_REACHED to every poll
PollArgNotReached(eos) == EOS_NOT_REACHED

\* line 464: the third argument of EbH265GetPacket, eos_flag as it is then
PollArg(eos) == eos

\* a build that polls a second time before it reads the descriptor
TraceToAllocPollTwice ==
    <<"EbH265GetPacket", "EbH265GetPacket", "read:pts", "read:nFilledLen",
      "ff_alloc_packet2">>

\* the reads of the descriptor made up to the packet allocation (lines 472-474)
TraceToAlloc ==
    <<"EbH265GetPacket", "read:pts", "read:nFilledLen", "ff_alloc_packet2">>

\* the reads made while the packet is filled (lines 481-490)
TraceCopy ==
    <<"read:pBuffer", "read:nFilledLen", "read:nFilledLen", "read:pts", "read:dts",
      "read:sliceType">>

\* a build that returns from the failed allocation without the release
TraceAllocFailLeak == TraceToAlloc

\* lines 474-478: the packet allocation fails, the descriptor is released
TraceAllocFail == TraceToAlloc \o <<"EbH265ReleaseOutBuffer">>

\* lines 512-516: the release, then the read of nFlags
TraceTail == <<"EbH265ReleaseOutBuffer", "read:nFlags">>

\* lines 420-423
Drained(frame) ==
    /\ last' = [NoCall EXCEPT !.op = "encode", !.frame = frame,
                              !.eos_at_poll = eos_flag, !.list_at_poll = list]
    /\ UNCHANGED <<state, ctxVars, encVars, histVars, faults>>

\* a build that acts on the EOS flag of the descriptor before it returns the
\* allocation error
OnAllocFailureActsOnEos(eos, nFlags) == IF HasEos(nFlags) THEN EOS_RECEIVED ELSE eos

\* lines 475-479: eos_flag when the call returns the allocation error
OnAllocFailure(eos, nFlags) == eos

\* lines 463-520: the poll and what follows it.  hdr is the descriptor the
\* encoder hands out (NullHdr when it hands out none), stale the value the
\* read of nFlags finds in the descriptor after it has been released
Retrieve(frame, s, svt_ret, hdr, i, alloc_ok, stale) ==
    LET k == FindEntry(s.list, hdr.pts)
        attach == k # 0 /\ Attaches(s.list[k])
        side == IF attach THEN s.list[k].metadata ELSE NoSide
        pkt == [null |-> FALSE, pts |-> hdr.pts, side_data |-> side]
        base == [NoCall EXCEPT !.op = "encode", !.frame = frame, !.polled = TRUE,
                               !.svt_ret = svt_ret, !.hdr = hdr,
                               !.eos_at_poll = PollArg(s.eos), !.list_at_poll = s.list,
                               !.send_ret = s.send_ret]
        \* the encoder has handed out a descriptor (one that carries EOS)
        handed == ~IsEmptyQueue(svt_ret) /\ ~hdr.null
    IN  /\ in_buf' = s.in_buf
        /\ faults' = faults + s.faults + Fault(alloc_ok)
        /\ sent' = s.sent
        /\ eosSends' = s.eosSends
        /\ encEos' = s.encEos
        /\ encDone' = (encDone \/ (handed /\ HasEos(hdr.nFlags)))
        /\ UNCHANGED <<enc_params, svt_handle, scratch, encUp>>
        /\ IF IsEmptyQueue(svt_ret)
           THEN /\ last' = [base EXCEPT !.ret = EmptyQueueReturn(svt_ret),
                                        !.trace = s.trace \o <<"EbH265GetPacket">>]
                /\ eos_flag' = s.eos
                /\ list' = s.list
                /\ encQ' = s.encQ
                /\ dupFirst' = s.dupFirst
                /\ UNCHANGED <<state, out>>
           ELSE IF hdr.null
           THEN \* line 472 reads through the NULL header_ptr
                /\ last' = [base EXCEPT !.returned = FALSE,
                                        !.trace = s.trace \o <<"EbH265GetPacket", "read:pts">>]
                /\ state' = "crashed"
                /\ eos_flag' = s.eos
                /\ list' = s.list
                /\ encQ' = s.encQ
                /\ dupFirst' = s.dupFirst
                /\ UNCHANGED out
           ELSE IF ~alloc_ok
           THEN \* lines 475-479
                /\ last' = [base EXCEPT !.ret = AVERROR(ENOMEM),
                                        !.trace = s.trace \o TraceAllocFail]
                /\ eos_flag' = OnAllocFailure(s.eos, hdr.nFlags)
                /\ list' = s.list
                /\ encQ' = EncRemove(s.encQ, i)
                /\ dupFirst' = s.dupFirst
                /\ UNCHANGED <<state, out>>
           ELSE /\ last' = [base EXCEPT !.got_packet = 1, !.pkt = pkt,
                                        !.trace = s.trace \o TraceToAlloc \o TraceCopy
                                                  \o TraceTail]
                /\ eos_flag' = IF SeesEos(stale) THEN EOS_RECEIVED ELSE s.eos
                /\ list' = IF attach THEN list_del(k, s.list) ELSE s.list
                /\ encQ' = EncRemove(s.encQ, i)
                /\ dupFirst' = IF attach THEN [s.dupFirst EXCEPT ![hdr.pts] = NoSide]
                               ELSE s.dupFirst
                /\ out' = Append(out, pkt)
                /\ UNCHANGED state

\* a build whose duplicate guard leaves the scan with a break: the call goes
\* on to the poll, which finds the queue empty
EndInGuardThenPoll(frame, s) ==
    Retrieve(frame, s, "EB_NoErrorEmptyQueue", NullHdr, 0, TRUE, 0)

\* lines 447-452: the call ends in the duplicate guard, before the poll
EndInGuard(frame, s) ==
    /\ faults' = faults + s.faults
    /\ eos_flag' = s.eos
    /\ in_buf' = s.in_buf
    /\ list' = s.list
    /\ encQ' = s.encQ
    /\ encEos' = s.encEos
    /\ sent' = s.sent
    /\ eosSends' = s.eosSends
    /\ dupFirst' = s.dupFirst
    /\ last' = [NoCall EXCEPT !.op = "encode", !.frame = frame, !.trace = s.trace,
                              !.eos_at_poll = s.eos, !.list_at_poll = s.list,
                              !.send_ret = s.send_ret]
    /\ UNCHANGED <<state, enc_params, svt_handle, scratch, encUp, encDone, out>>

eb_encode_frame ==
    /\ state = "open"
    /\ CallAllowed
    /\ \E frame \in CallFrames :
        \* the caller submits no frame once it has signalled end of stream
        /\ ~frame.null => /\ eos_flag # EOS_SENT
                          /\ eos_flag = EOS_RECEIVED \/ Len(sent) < MaxFrames
        /\ IF AlreadyDrained(eos_flag)
           THEN Drained(frame)
           ELSE \E send_ret \in SendStatuses, pack_ok \in BOOLEAN :
                LET s == Submit(frame, send_ret, pack_ok)
                IN  /\ faults + s.faults <= FaultBudget
                    /\ s.trace = << >> => send_ret = "EB_ErrorNone"
                    /\ (frame.metadata = NoDict \/ s.early) => pack_ok
                    /\ IF s.early
                       THEN EndInGuard(frame, s)
                       ELSE \/ \E svt_ret \in PollStatuses \ {"EB_ErrorNone"} :
                                 Retrieve(frame, s, svt_ret, NullHdr, 0, TRUE, 0)
                            \/ \E i \in 1..Len(s.encQ), flags \in FlagValues,
                                  alloc_ok \in BOOLEAN, stale \in FlagValues :
                                 /\ EncCanEmit(s.encQ, s.encEos)
                                 /\ EncFlagsOk(s.encQ, s.encEos, flags)
                                 /\ ~alloc_ok => stale = 0 /\ faults + s.faults < FaultBudget
                                 /\ Retrieve(frame, s, "EB_ErrorNone",
                                             [null |-> FALSE, pts |-> s.encQ[i],
                                              nFlags |-> flags],
                                             i, alloc_ok, stale)
    /\ Aside

Next == eb_enc_init \/ eb_encode_frame \/ eb_enc_close

Spec == Init /\ [][Next]_vars

(***************************************************************************)
(* The pure functions of the adapter, applied on their own to inputs drawn *)
(* from larger sets than the runs above can afford.                        *)
(***************************************************************************)
InitFn ==
    /\ InitInst
    /\ \E avctx \in FnAvctxs : fn = [NoFn EXCEPT !.avctx = avctx]
    /\ peer = NoPeer
    /\ InitAux

\* error_mapping() applied to a status
fn_error_mapping ==
    /\ fn.op = "none"
    /\ \E svt_ret \in AllStatuses :
          fn' = [fn EXCEPT !.op = "error_mapping", !.svt_ret = svt_ret,
                           !.ret = error_mapping(svt_ret)]
    /\ UNCHANGED <<instVars, peer, auxVars>>

\* config_enc_params() applied to the codec context
fn_config_enc_params ==
    /\ fn.op = "none"
    /\ LET c == config_enc_params(fn.avctx)
       IN  fn' = [fn EXCEPT !.op = "config_enc_params", !.cfg_ret = c.ret,
                            !.param = c.param]
    /\ UNCHANGED <<instVars, peer, auxVars>>

\* read_in_data() applied to one more frame, on the descriptor alloc_buffer()
\* zeroed and the frames before have filled
fn_read_in_data ==
    /\ fn.op \in {"none", "read_in_data"}
    /\ fn.reads < MaxReads
    /\ config_enc_params(fn.avctx).ret = "EB_ErrorNone"
    /\ \E linesize \in LineSizes :
          LET frame == [linesize |-> linesize]
          IN  fn' = [fn EXCEPT
                       !.op = "read_in_data", !.frame = frame, !.reads = @ + 1,
                       !.param = config_enc_params(fn.avctx).param,
                       !.in_buf = read_in_data(config_enc_params(fn.avctx).param,
                                               frame, @)]
    /\ UNCHANGED <<instVars, peer, auxVars>>

\* the packet filled from a descriptor the encoder returned
fn_fill_packet ==
    /\ fn.op = "none"
    /\ \E header \in [pts : PtsSet, dts : DtsSet, nFilledLen : OutLens,
                       sliceType : SliceTypes] :
          fn' = [fn EXCEPT !.op = "fill_packet", !.header = header,
                           !.pkt = PacketFields(header)]
    /\ UNCHANGED <<instVars, peer, auxVars>>

NextFn == fn_error_mapping \/ fn_config_enc_params \/ fn_read_in_data \/ fn_fill_packet

FnSpec == InitFn /\ [][NextFn]_vars

(***************************************************************************)
(* Two encoder instances, A and B, each with its own SvtContext and its   *)
(* own encoder.  The variables hold the instance the caller is using; the *)
(* other one is put aside in peer.saved, and Switch exchanges the two.    *)
(***************************************************************************)
InitTwo == InitInst /\ fn = NoFn /\ peer = [NoPeer EXCEPT !.two = TRUE] /\ InitAux

\* the caller turns to the other instance
Switch ==
    /\ peer.two
    /\ state' = peer.saved.state
    /\ eos_flag' = peer.saved.eos_flag
    /\ in_buf' = peer.saved.in_buf
    /\ enc_params' = peer.saved.enc_params
    /\ svt_handle' = peer.saved.svt_handle
    /\ list' = peer.saved.list
    /\ scratch' = peer.saved.scratch
    /\ encQ' = peer.saved.encQ
    /\ encEos' = peer.saved.encEos
    /\ encDone' = peer.saved.encDone
    /\ encUp' = peer.saved.encUp
    /\ last' = peer.saved.last
    /\ sent' = peer.saved.sent
    /\ out' = peer.saved.out
    /\ eosSends' = peer.saved.eosSends
    /\ dupFirst' = peer.saved.dupFirst
    /\ faults' = peer.saved.faults
    /\ peer' = [peer EXCEPT !.self = IF @ = "A" THEN "B" ELSE "A", !.saved = ThisInst]
    /\ fn' = fn
    /\ UNCHANGED auxVars

NextTwo == eb_enc_init \/ eb_encode_frame \/ eb_enc_close \/ Switch

TwoSpec == InitTwo /\ [][NextTwo]_vars

(***************************************************************************)
(* The raw-video demuxer of src/libavformat/rawvideodec.c: two instances   *)
(* (two AVFormatContext) read packets in any order; rawvideo_read_packet   *)
(* keeps the number of entries it added in a function-scope static.        *)
(***************************************************************************)
\* the keys and values vsbuf_parse_metadata() hands back: up to two pairs
DmxPairs == {<<1, 1>>, <<2, 1>>}
Parsed == {<< >>} \cup {<<a>> : a \in DmxPairs}
                 \cup {<<a, b>> : a \in DmxPairs, b \in DmxPairs}

\* av_dict_set(&m, key, value, 0): an entry with the key is dropped (the last
\* entry takes its place), then the pair is appended
DictSet(elems, kv) ==
    LET hit == {i \in DOMAIN elems : elems[i][1] = kv[1]}
        n == Len(elems)
    IN  IF hit = {} THEN Append(elems, kv)
        ELSE LET idx == CHOOSE i \in hit : \A j \in hit : i <= j
             IN  Append([j \in 1..(n - 1) |-> IF j = idx THEN elems[n] ELSE elems[j]], kv)

\* lines 111-112: the parsed pairs are set one by one
RECURSIVE DictSetAll(_, _)
DictSetAll(elems, pairs) ==
    IF pairs = << >> THEN elems
    ELSE DictSetAll(DictSet(elems, Head(pairs)), Tail(pairs))

\* av_dict_partial_free(m, &cnt): the dictionaries it may leave.  It drops
\* the cnt entries appended last; of a dictionary with fewer entries it may
\* leave any number
av_dict_partial_free(elems, cnt) ==
    IF cnt <= Len(elems) THEN {SubSeq(elems, 1, Len(elems) - cnt)}
    ELSE {SubSeq(elems, 1, n) : n \in 0..Len(elems)}

\* a build that keeps the count in the demuxer's private context
LastInsertedCntOwn(d, x) == d.own[x]

\* line 91: static int last_inserted_cnt, one for the whole process
LastInsertedCnt(d, x) == d.last_inserted_cnt

\* rawvideo_read_packet() on the AVFormatContext x.  taken: the protocol is
\* the video stream buffer (magic matches, the parser is set)
rawvideo_read_packet(x) ==
    /\ Len(dmx.reads) < MaxDmxReads
    /\ \E taken \in BOOLEAN, parsed \in Parsed :
          /\ ~taken => parsed = << >>
          /\ LET m == dmx.metadata[x]
                 cnt == LastInsertedCnt(dmx, x)
                 frees == taken /\ cnt > 0 /\ ~m.null
             IN  \E after \in (IF frees THEN av_dict_partial_free(m.elems, cnt)
                                ELSE {m.elems}) :
                    LET rec == [inst |-> x, taken |-> taken, asked |-> cnt,
                                freed |-> frees, null |-> m.null, had |-> Len(m.elems),
                                removed |-> Len(m.elems) - Len(after),
                                count |-> Len(parsed)]
                    IN  dmx' =
                          IF taken
                          THEN [last_inserted_cnt |-> Len(parsed),
                                metadata |-> [dmx.metadata EXCEPT ![x] =
                                    [null |-> m.null /\ parsed = << >>,
                                     elems |-> DictSetAll(after, parsed)]],
                                own |-> [dmx.own EXCEPT ![x] = Len(parsed)],
                                reads |-> Append(dmx.reads, rec)]
                          ELSE [dmx EXCEPT !.reads = Append(@, rec)]
    /\ UNCHANGED <<instVars, fn, peer, seg, roi, lst>>

NextDmx == \E x \in Instances : rawvideo_read_packet(x)

DmxSpec == Init /\ [][NextDmx]_vars

(***************************************************************************)
(* The seg filter of src/unnamed/part_001 (lines 1-250): filter instances  *)
(* are initialised, fed frames and uninitialised in any order; first_time  *)
(* is a file-scope static, the Python interpreter is one per process.      *)
(***************************************************************************)
\* what PyDict_GetItemString finds under a name: nothing, a callable, or an
\* object that cannot be called
PyAttrs == {"NULL", "callable", "object"}

\* seg_init(): the result and the context it leaves.  py_ok: Py_IsInitialized()
\* after Py_Initialize(); mod_ok, dict_ok: the import and the dictionary;
\* f_init, f_seg: what the module has under "init" and "segment"
SegInitOutcome(first_time, py_ok, mod_ok, dict_ok, f_init, f_seg) ==
    IF first_time # 0 THEN [ret |-> 0, ctx |-> NewSeg, py_call |-> FALSE]
    ELSE IF ~py_ok THEN [ret |-> -1, ctx |-> NewSeg, py_call |-> TRUE]
    ELSE IF ~mod_ok THEN [ret |-> -1, ctx |-> NewSeg, py_call |-> TRUE]
    ELSE IF ~dict_ok
    THEN [ret |-> -1, ctx |-> [NewSeg EXCEPT !.py_module = "module"], py_call |-> TRUE]
    ELSE IF f_init # "callable"
    THEN [ret |-> -1, ctx |-> [NewSeg EXCEPT !.py_module = "module", !.py_init = f_init],
          py_call |-> TRUE]
    \* line 109 tests py_seg for NULL and py_init, once more, for callable
    ELSE IF f_seg = "NULL"
    THEN [ret |-> -1, ctx |-> [NewSeg EXCEPT !.py_module = "module", !.py_init = f_init],
          py_call |-> TRUE]
    ELSE [ret |-> 0,
          ctx |-> [NewSeg EXCEPT !.py_module = "module", !.py_init = f_init,
                                 !.py_seg = f_seg, !.did_init = TRUE],
          py_call |-> TRUE]

\* seg_init() on a new filter instance in slot x (the slot of an instance that
\* was freed is taken by the next one)
seg_init(x) ==
    /\ seg.calls < MaxSegCalls
    /\ seg.inst[x].st \in {"new", "closed"}
    /\ \E py_ok \in BOOLEAN, mod_ok \in BOOLEAN, dict_ok \in BOOLEAN,
          f_init \in PyAttrs, f_seg \in PyAttrs :
          \* an interpreter that is running stays initialised; the steps that
          \* are not reached are not drawn
          /\ seg.py => py_ok
          /\ (seg.first_time # 0 \/ ~py_ok) => mod_ok
          /\ (seg.first_time # 0 \/ ~py_ok \/ ~mod_ok) => dict_ok
          /\ (seg.first_time # 0 \/ ~py_ok \/ ~mod_ok \/ ~dict_ok) => f_init = "callable"
          /\ (seg.first_time # 0 \/ ~py_ok \/ ~mod_ok \/ ~dict_ok \/ f_init # "callable")
                => f_seg = "callable"
          /\ seg.first_time # 0 => py_ok
          /\ LET o == SegInitOutcome(seg.first_time, py_ok, mod_ok, dict_ok, f_init, f_seg)
                 starts == o.py_call /\ ~seg.py /\ py_ok
             IN  seg' = [seg EXCEPT
                           !.calls = @ + 1,
                           !.py = @ \/ starts,
                           !.inits = IF starts THEN @ + 1 ELSE @,
                           !.inst[x] = [o.ctx EXCEPT
                                          !.st = IF o.ret = 0 THEN "ready" ELSE "failed"],
                           !.last = [op |-> "seg_init", inst |-> x, ret |-> o.ret,
                                     py |-> seg.py \/ starts, ctx |-> o.ctx]]
    /\ UNCHANGED <<instVars, fn, peer, dmx, roi, lst>>

\* seg_uninit() on the instance in slot x: avfilter_free() calls it after a
\* seg_init() that succeeded or failed
seg_uninit(x) ==
    /\ seg.calls < MaxSegCalls
    /\ seg.inst[x].st \in {"ready", "failed"}
    /\ seg' = IF seg.first_time # 0
              THEN [seg EXCEPT !.calls = @ + 1, !.first_time = 0,
                               !.inst[x].st = "closed",
                               !.last = [op |-> "seg_uninit", inst |-> x, ret |-> 0,
                                         py |-> seg.py, ctx |-> seg.inst[x]]]
              ELSE [seg EXCEPT !.calls = @ + 1,
                               !.py = FALSE,
                               !.finals = IF seg.py THEN @ + 1 ELSE @,
                               !.inst[x].st = "closed",
                               !.last = [op |-> "seg_uninit", inst |-> x, ret |-> 0,
                                         py |-> FALSE, ctx |-> seg.inst[x]]]
    /\ UNCHANGED <<instVars, fn, peer, dmx, roi, lst>>

\* filter_frame() on the instance in slot x, whose seg_init() returned 0
seg_filter_frame(x) ==
    /\ seg.calls < MaxSegCalls
    /\ seg.inst[x].st = "ready"
    /\ seg' = [seg EXCEPT !.calls = @ + 1,
                          !.last = [op |-> "filter_frame", inst |-> x, ret |-> 0,
                                    py |-> seg.py, ctx |-> seg.inst[x]]]
    /\ UNCHANGED <<instVars, fn, peer, dmx, roi, lst>>

NextSeg == \E x \in Instances : seg_init(x) \/ seg_uninit(x) \/ seg_filter_frame(x)

SegSpec == Init /\ [][NextSeg]_vars

(***************************************************************************)
(* The roi filter of src/libavfilter/vf_roi.c (CONFIG_LIBPERSONID): the    *)
(* filter thread runs filter_frame, the person_id thread runs              *)
(* personid_callback on the same ROIContext, with no lock; the two meet    *)
(* only in the SIGCONT the callback queues and filter_frame waits for.     *)
(***************************************************************************)
\* the rectangles person_id reports while frames are filtered
RoiRects == {[x |-> 1, y |-> 1, width |-> 2, height |-> 1],
             [x |-> 0, y |-> 0, width |-> 1, height |-> 2]}
\* the rectangles the callback is applied to on its own
FnRoiRects == [x : {-1, 1, 5}, y : {-1, 1, 5}, width : {0, 2, 5}, height : {0, 2, 5}]

\* lines 79-82: roi_ctx->left
CbLeft(ctx, r) ==
    [ctx EXCEPT !.left = IF r.x < 0 \/ r.x > ctx.width THEN 0 ELSE r.x]

\* lines 84-87: roi_ctx->top
CbTop(ctx, r) ==
    [ctx EXCEPT !.top = IF r.y < 0 \/ r.y > ctx.height THEN 0 ELSE r.y]

\* lines 89-101: roi_ctx->width
CbWidth(ctx, r) ==
    IF r.width > 0
    THEN [ctx EXCEPT !.width =
            IF r.x < 0
            THEN (IF r.x + r.width < ctx.width THEN r.x + r.width ELSE r.width)
            ELSE (IF r.x + r.width > ctx.width THEN ctx.width - r.x ELSE r.width)]
    ELSE ctx

\* lines 103-115: roi_ctx->height
CbHeight(ctx, r) ==
    IF r.height > 0
    THEN [ctx EXCEPT !.height =
            IF r.y < 0
            THEN (IF r.y + r.height < ctx.height THEN r.y + r.height ELSE r.height)
            ELSE (IF r.y + r.height > ctx.height THEN ctx.height - r.y ELSE r.height)]
    ELSE ctx

\* personid_callback(): the ROI it leaves in the context it was given
personid_callback(ctx, r) == CbHeight(CbWidth(CbTop(CbLeft(ctx, r), r), r), r)

\* personid_callback() applied on its own to a context that holds the default
roi_callback_alone ==
    /\ roi.fn.op = "none" /\ roi.frame = 0
    /\ \E r \in FnRoiRects :
          roi' = [roi EXCEPT !.fn = [op |-> "personid_callback", rect |-> r,
                                     out |-> personid_callback(DefaultRoi, r)]]
    /\ UNCHANGED <<instVars, fn, peer, dmx, seg, lst>>

\* filter_frame(), lines 245-274: the default ROI is stored and the frame is
\* handed to person_id (filtered_cnt % SKIP_IDENTIFY_NUM is 0 for every frame)
roi_filter_frame ==
    /\ roi.fn.op = "none"
    /\ roi.pc = "idle"
    /\ roi.frame < MaxRoiFrames
    /\ \E r \in RoiRects :
          roi' = [roi EXCEPT !.frame = @ + 1, !.ctx = DefaultRoi, !.pc = "wait",
                             !.signalled = FALSE,
                             !.pending = @ \cup {[frame |-> roi.frame + 1, rect |-> r]},
                             !.rects = Append(@, r)]
    /\ UNCHANGED <<instVars, fn, peer, dmx, seg, lst>>

\* lines 283-300: sigtimedwait() returns the pending SIGCONT of the callback
roi_wait_signal ==
    /\ roi.pc = "wait"
    /\ roi.sig
    /\ roi' = [roi EXCEPT !.sig = FALSE, !.recorded = roi.ctx, !.pc = "set",
                          !.signalled = TRUE]
    /\ UNCHANGED <<instVars, fn, peer, dmx, seg, lst>>

\* lines 283-288: sigtimedwait() times out after one second
roi_wait_timeout ==
    /\ roi.pc = "wait"
    /\ ~roi.sig
    /\ roi' = [roi EXCEPT !.pc = "set"]
    /\ UNCHANGED <<instVars, fn, peer, dmx, seg, lst>>

\* lines 304-309: meta_data_set_roi() writes the ROI of the context into the
\* metadata of the frame
roi_meta_data_set ==
    /\ roi.pc = "set"
    /\ roi' = [roi EXCEPT !.pc = "idle",
                          !.meta = Append(@, [frame |-> roi.frame, roi |-> roi.ctx,
                                              signalled |-> roi.signalled])]
    /\ UNCHANGED <<instVars, fn, peer, dmx, seg, lst>>

\* the person_id thread calls personid_callback() for a frame it was given
cb_enter ==
    /\ roi.cb.pc = "idle"
    /\ \E d \in roi.pending :
          roi' = [roi EXCEPT !.pending = @ \ {d},
                             !.cb = [pc |-> "left", frame |-> d.frame, rect |-> d.rect]]
    /\ UNCHANGED <<instVars, fn, peer, dmx, seg, lst>>

cb_left ==
    /\ roi.cb.pc = "left"
    /\ roi' = [roi EXCEPT !.ctx = CbLeft(@, roi.cb.rect), !.cb.pc = "top"]
    /\ UNCHANGED <<instVars, fn, peer, dmx, seg, lst>>

cb_top ==
    /\ roi.cb.pc = "top"
    /\ roi' = [roi EXCEPT !.ctx = CbTop(@, roi.cb.rect), !.cb.pc = "width"]
    /\ UNCHANGED <<instVars, fn, peer, dmx, seg, lst>>

cb_width ==
    /\ roi.cb.pc = "width"
    /\ roi' = [roi EXCEPT !.ctx = CbWidth(@, roi.cb.rect), !.cb.pc = "height"]
    /\ UNCHANGED <<instVars, fn, peer, dmx, seg, lst>>

cb_height ==
    /\ roi.cb.pc = "height"
    /\ roi' = [roi EXCEPT !.ctx = CbHeight(@, roi.cb.rect), !.cb.pc = "signal"]
    /\ UNCHANGED <<instVars, fn, peer, dmx, seg, lst>>

\* lines 123-126: sigqueue(getpid(), SIGCONT, ...); a SIGCONT that is already
\* pending is not queued a second time
cb_signal ==
    /\ roi.cb.pc = "signal"
    /\ roi' = [roi EXCEPT !.sig = TRUE, !.cb.pc = "idle"]
    /\ UNCHANGED <<instVars, fn, peer, dmx, seg, lst>>

NextRoi ==
    \/ roi_callback_alone
    \/ roi_filter_frame \/ roi_wait_signal \/ roi_wait_timeout \/ roi_meta_data_set
    \/ cb_enter \/ cb_left \/ cb_top \/ cb_width \/ cb_height \/ cb_signal

RoiSpec == Init /\ [][NextRoi]_vars

(***************************************************************************)
(* The list primitives of src/libavutil/list.h (lines 29-85), at the level *)
(* of the next and prev pointers.                                          *)
(***************************************************************************)
\* __list_add(): new is linked between prev and next
ptr_list_add_between(l, new, prev, next) ==
    LET a == [l EXCEPT !.prev[next] = new]
        b == [a EXCEPT !.next[new] = next]
        c == [b EXCEPT !.prev[new] = prev]
    IN  [c EXCEPT !.next[prev] = new]

\* list_add(): new is linked right after the head
ptr_list_add(l, new, head) == ptr_list_add_between(l, new, head, l.next[head])

\* list_add_tail(): new is linked right before the head
ptr_list_add_tail(l, new, head) == ptr_list_add_between(l, new, l.prev[head], head)

\* __list_del(): prev and next are linked to each other
ptr_list_del_between(l, prev, next) ==
    LET a == [l EXCEPT !.prev[next] = prev]
    IN  [a EXCEPT !.next[prev] = next]

\* a build whose list_del() leaves the links of the entry as they were
ptr_list_del_unpoisoned(l, entry) ==
    ptr_list_del_between(l, l.prev[entry], l.next[entry])

\* list_del(): the entry is unlinked and its links are poisoned
ptr_list_del(l, entry) ==
    LET a == ptr_list_del_between(l, l.prev[entry], l.next[entry])
        b == [a EXCEPT !.next[entry] = LIST_POISON1]
    IN  [b EXCEPT !.prev[entry] = LIST_POISON2]

\* list_for_each(): the nodes visited from the head, at most fuel of them
RECURSIVE Walk(_, _, _)
Walk(l, pos, fuel) ==
    IF pos = ListHead \/ pos \notin ListNodes \/ fuel = 0 THEN << >>
    ELSE <<pos>> \o Walk(l, l.next[pos], fuel - 1)

list_for_each(l) == Walk(l, l.next[ListHead], Cardinality(ListNodes) + 1)

\* a node that is not in the list is added at its tail
lst_add_tail ==
    /\ lst.ops < MaxListOps
    /\ \E n \in ListNodes :
          /\ \A i \in DOMAIN lst.order : lst.order[i] # n
          /\ lst' = [ptr |-> ptr_list_add_tail(lst.ptr, n, ListHead),
                     order |-> Append(lst.order, n),
                     removed |-> lst.removed \ {n},
                     ops |-> lst.ops + 1]
    /\ UNCHANGED <<instVars, fn, peer, dmx, seg, roi>>

\* a node that is in the list is removed
lst_del ==
    /\ lst.ops < MaxListOps
    /\ \E k \in DOMAIN lst.order :
          lst' = [ptr |-> ptr_list_del(lst.ptr, lst.order[k]),
                  order |-> list_del(k, lst.order),
                  removed |-> lst.removed \cup {lst.order[k]},
                  ops |-> lst.ops + 1]
    /\ UNCHANGED <<instVars, fn, peer, dmx, seg, roi>>

NextList == lst_add_tail \/ lst_del

ListSpec == Init /\ [][NextList]_vars

(***************************************************************************)
(* Properties.                                                             *)
(***************************************************************************)
ReadEvents == {"read:pts", "read:nFilledLen", "read:pBuffer", "read:dts",
               "read:sliceType", "read:nFlags"}

\* the last step was an eb_encode_frame call that ended in the duplicate guard
EndedInGuard ==
    /\ last.op = "encode"
    /\ ~last.polled
    /\ last.trace = <<"EbH265EncSendPicture">>
    /\ ~last.frame.null

DistinctSent == \A a, b \in DOMAIN sent : a # b => sent[a].pts # sent[b].pts

C2_OneEntryPerPts ==
    \A i, j \in DOMAIN list : i # j => list[i].pts # list[j].pts

\* a metadata frame was submitted while an entry with its pts was pending
C2_Witness ==
    /\ EndedInGuard
    /\ \E i \in DOMAIN list : list[i].pts = last.frame.pts

\* C3: a metadata frame submitted while an entry with its pts is pending
\* leaves the list as it was, the entry keeps the payload it had (that of the
\* first frame), and the packet with that pts that gets side data gets that
\* first payload.
C3_DuplicateKeepsFirst ==
    [][ /\ ( /\ last'.op = "encode"
             /\ eos_flag # EOS_RECEIVED
             /\ ~last'.frame.null
             /\ last'.frame.metadata # NoDict
             /\ \E i \in DOMAIN list : list[i].pts = last'.frame.pts )
           => ( /\ list' = list
                /\ Cardinality({i \in DOMAIN list' : list'[i].pts = last'.frame.pts}) = 1 )
        /\ \A t \in PtsSet :
              dupFirst'[t] # NoSide
                  => \E i \in DOMAIN list' : /\ list'[i].pts = t
                                             /\ list'[i].metadata = dupFirst'[t]
        /\ ( /\ last'.op = "encode"
             /\ last'.got_packet = 1
             /\ last'.pkt.pts \in PtsSet
             /\ dupFirst[last'.pkt.pts] # NoSide )
           => last'.pkt.side_data = dupFirst[last'.pkt.pts]
      ]_vars

\* two metadata frames with the same pts and different payloads were both
\* submitted before the first packet, which carries the first payload
C3_Witness ==
    /\ Len(sent) = 2 /\ Len(out) = 1
    /\ sent[1].pts = sent[2].pts
    /\ sent[1].payload # << >> /\ sent[2].payload # << >>
    /\ sent[1].payload # sent[2].payload
    /\ last.got_packet = 1
    /\ out[1].pts = sent[1].pts
    /\ out[1].side_data = sent[1].payload

EosStep(a, b) ==
    \/ a = b
    \/ a = EOS_NOT_REACHED /\ b = EOS_SENT
    \/ a = EOS_SENT /\ b = EOS_RECEIVED

\* C4: eos_flag changes only by NotReached->Sent and Sent->Received, in the
\* submission half and in the retrieval half of every call.
C4_FlushStateSteps ==
    [][ last'.op = "encode"
          => /\ EosStep(eos_flag, last'.eos_at_poll)
             /\ EosStep(last'.eos_at_poll, eos_flag') ]_vars

\* C5: a retrieval that obtains a descriptor moves eos_flag to Received
\* exactly when the descriptor's EOS bit is set, and otherwise leaves it.
C5_ReceivedIffEosBit ==
    (last.op = "encode" /\ last.polled /\ ~last.hdr.null)
        => /\ (eos_flag = EOS_RECEIVED) <=> HasEos(last.hdr.nFlags)
           /\ ~HasEos(last.hdr.nFlags) => eos_flag = last.eos_at_poll

IsSentinel(buf) ==
    buf.nFilledLen = 0 /\ buf.pBuffer = "NULL" /\ buf.nFlags = EB_BUFFERFLAG_EOS

SendsIn(trace) == {i \in DOMAIN trace : trace[i] = "EbH265EncSendPicture"}

\* C6 as stated: the EOS picture is sent at most once; the first end-of-stream
\* call sends it and sets eos_flag to Sent; a later end-of-stream call sends
\* nothing and leaves eos_flag and in_buf unchanged.
C6_EosCallIdempotent ==
    /\ [](eosSends <= 1)
    /\ [][ (last'.op = "encode" /\ last'.frame.null)
             => IF eos_flag = EOS_NOT_REACHED
                THEN /\ eosSends' = eosSends + 1
                     /\ IsSentinel(in_buf')
                     /\ eos_flag' = EOS_SENT
                ELSE /\ eosSends' = eosSends
                     /\ SendsIn(last'.trace) = {}
                     /\ eos_flag' = eos_flag
                     /\ in_buf' = in_buf ]_vars

\* C6 amended: the EOS picture is sent at most once; the first end-of-stream
\* call sends it and has eos_flag at Sent when it polls; a later end-of-stream
\* call sends nothing, leaves in_buf unchanged and has eos_flag unchanged when
\* it polls (the retrieval of the same call may still move eos_flag on).
C6_EosSubmitIdempotent ==
    /\ [](eosSends <= 1)
    /\ [][ (last'.op = "encode" /\ last'.frame.null)
             => IF eos_flag = EOS_NOT_REACHED
                THEN /\ eosSends' = eosSends + 1
                     /\ Cardinality(SendsIn(last'.trace)) = 1
                     /\ IsSentinel(in_buf')
                     /\ last'.eos_at_poll = EOS_SENT
                ELSE /\ eosSends' = eosSends
                     /\ SendsIn(last'.trace) = {}
                     /\ last'.eos_at_poll = eos_flag
                     /\ in_buf' = in_buf ]_vars

\* an end-of-stream call made after the EOS picture had been sent
C6_Witness ==
    /\ last.op = "encode" /\ last.frame.null /\ last.polled
    /\ SendsIn(last.trace) = {}
    /\ eosSends = 1
    /\ IsSentinel(in_buf)

\* C7: in state Received every eb_encode_frame call returns 0 with
\* got_packet 0, calls nothing of the encoder and changes nothing.
C7_ReceivedIsFinal ==
    [][ (eos_flag = EOS_RECEIVED /\ last'.op = "encode")
          => /\ last'.returned /\ last'.ret = 0 /\ last'.got_packet = 0
             /\ last'.trace = << >>
             /\ eos_flag' = eos_flag /\ in_buf' = in_buf /\ list' = list
             /\ encQ' = encQ /\ encEos' = encEos /\ out' = out ]_vars

\* a frame was passed in state Received
C7_Witness ==
    /\ eos_flag = EOS_RECEIVED
    /\ last.op = "encode" /\ ~last.frame.null /\ last.frame.metadata # NoDict
    /\ last.trace = << >>

\* C8: a poll that reports empty queue ends the call with 0 and got_packet 0,
\* eos_flag and the list as they were at the poll, and no release.
C8_EmptyQueueIsEmpty ==
    (last.op = "encode" /\ last.polled /\ last.svt_ret = "EB_NoErrorEmptyQueue")
        => /\ last.returned /\ last.ret = 0 /\ last.got_packet = 0
           /\ eos_flag = last.eos_at_poll
           /\ list = last.list_at_poll
           /\ \A i \in DOMAIN last.trace : last.trace[i] # "EbH265ReleaseOutBuffer"

\* the poll found the queue empty while entries were pending and EOS was sent
C8_Witness ==
    /\ last.op = "encode" /\ last.polled /\ last.svt_ret = "EB_NoErrorEmptyQueue"
    /\ list # << >>
    /\ eos_flag = EOS_SENT

\* C9: no entry point returns an error because the encoder reported empty
\* queue: such a call returns 0, and AVERROR(EAGAIN) is never returned.
C9_EmptyQueueNotAnError ==
    /\ last.svt_ret = "EB_NoErrorEmptyQueue" => (last.returned /\ last.ret = 0)
    /\ last.ret # AVERROR(EAGAIN)

\* the encoder reported empty queue to an eb_encode_frame call
C9_Witness ==
    /\ last.op = "encode" /\ last.polled
    /\ last.svt_ret = "EB_NoErrorEmptyQueue"
    /\ ~last.frame.null

\* C10: in every call, no field of the descriptor is read after the
\* descriptor has been released.
C10_NoReadAfterRelease ==
    \A i, j \in DOMAIN last.trace :
        (last.trace[i] = "EbH265ReleaseOutBuffer" /\ i < j)
            => last.trace[j] \notin ReadEvents

Releases(trace) == {i \in DOMAIN trace : trace[i] = "EbH265ReleaseOutBuffer"}

\* C11: every descriptor a poll of an eb_encode_frame call obtained is
\* released exactly once before that call returns, on the path that delivers
\* a packet and on the path where the packet allocation fails, and a call
\* whose poll obtained no descriptor never calls the release.
C11_ReleaseOncePerDescriptor ==
    last.op = "encode" =>
        IF last.polled /\ ~last.hdr.null
        THEN last.returned /\ Cardinality(Releases(last.trace)) = 1
        ELSE Releases(last.trace) = {}

\* a call polled a descriptor and its packet allocation failed
C11_Witness ==
    /\ last.op = "encode" /\ last.polled /\ ~last.hdr.null
    /\ last.ret = AVERROR(ENOMEM)
    /\ last.got_packet = 0

\* C12: a call whose EbH265EncSendPicture was rejected returns the mapped
\* error of that status, and not success.
C12_SendFailureSurfaced ==
    (last.op = "encode" /\ last.send_ret # "EB_ErrorNone") =>
        /\ last.returned
        /\ last.ret = error_mapping(last.send_ret)
        /\ last.got_packet = 0

\* C13: a call whose poll reported a failure other than empty queue returns
\* the mapped error, delivers no packet and reads no field of a descriptor.
C13_PollFailureSurfaced ==
    (last.op = "encode" /\ last.polled
        /\ last.svt_ret \notin {"EB_ErrorNone", "EB_NoErrorEmptyQueue"}) =>
        /\ last.returned
        /\ last.ret = error_mapping(last.svt_ret)
        /\ last.got_packet = 0
        /\ \A i \in DOMAIN last.trace : last.trace[i] \notin ReadEvents

\* C14: after eb_enc_close no entry of the metadata list is left allocated,
\* whatever eos_flag was and however many entries were unmatched.
C14_CloseEmptiesCache == state = "closed" => list = << >>

\* C15: after eb_enc_close the buffer alloc_buffer() allocated is freed,
\* whatever eos_flag was.
C15_CloseFreesScratch == state = "closed" => scratch # "live"

\* C16: once the encoder has handed out its last packet, the one with the
\* EOS flag, eos_flag is Received, also when a packet allocation failed on
\* the way.
C16_DrainReachesReceived == encDone => eos_flag = EOS_RECEIVED

\* nothing failed and no submitted frame carried metadata
PlainRun ==
    /\ faults = 0
    /\ state # "crashed"
    /\ \A j \in DOMAIN sent : sent[j].payload = << >>

\* C17: when no submitted frame carries metadata and nothing fails, eos_flag
\* is Received exactly when the encoder has handed out its last packet, and
\* then one packet per submitted frame has been delivered and the metadata
\* list is empty.
C17_OnePacketPerFrame ==
    PlainRun =>
        /\ eos_flag = EOS_RECEIVED <=> encDone
        /\ encDone => (Len(out) = Len(sent) /\ list = << >>)

\* C18: when nothing fails, the metadata list is empty once eos_flag is
\* Received.
C18_CacheEmptyAtReceived ==
    (faults = 0 /\ state # "crashed" /\ eos_flag = EOS_RECEIVED) => list = << >>

\* C19: an eb_enc_init whose alloc_buffer() fails returns AVERROR(ENOMEM)
\* after EbDeinitEncoder and EbDeinitHandle have undone EbInitEncoder and
\* EbInitHandle, and leaves no encoder, no handle and no input buffer.
C19_AllocFailureTearsDown ==
    (last.op = "init" /\ last.init_fail = "alloc_buffer") =>
        /\ state = "init_failed"
        /\ last.ret = AVERROR(ENOMEM)
        /\ Len(last.trace) >= 2
        /\ SubSeq(last.trace, Len(last.trace) - 1, Len(last.trace))
               = <<"EbDeinitEncoder", "EbDeinitHandle">>
        /\ svt_handle = "NULL" /\ encUp = "none"
        /\ scratch = "none" /\ in_buf.pBuffer = "NULL"

\* eb_enc_init came as far as alloc_buffer(), which failed
C19_Witness ==
    /\ last.op = "init" /\ last.init_fail = "alloc_buffer"
    /\ \E i \in DOMAIN last.trace : last.trace[i] = "EbInitEncoder"

\* C20: with the Main Still Picture profile eb_enc_init fails with
\* AVERROR(EINVAL) before EbH265EncSetParameter and EbInitEncoder are called,
\* and the instance never takes a picture.
C20_StillPictureRejected ==
    enc_params.profile = FF_PROFILE_HEVC_MAIN_STILL_PICTURE =>
        /\ state \in {"init_failed", "closed"}
        /\ sent = << >> /\ encQ = << >> /\ eosSends = 0
        /\ last.op = "init" =>
              /\ last.ret = AVERROR(EINVAL)
              /\ last.trace = <<"EbInitHandle", "EbDeinitHandle">>

\* eb_enc_init was given the Main Still Picture profile
C20_Witness ==
    /\ last.op = "init"
    /\ enc_params.profile = FF_PROFILE_HEVC_MAIN_STILL_PICTURE
    /\ state = "init_failed"

\* thread and synchronisation-primitive failures that are not failures to
\* tear one down
NotTeardown == {"EB_ErrorCreateThreadFailed", "EB_ErrorCreateSemaphoreFailed",
                "EB_ErrorCreateMutexFailed", "EB_ErrorSemaphoreUnresponsive",
                "EB_ErrorMutexUnresponsive"}

\* C21 as stated: success for no error; lack of resources for allocation,
\* thread and synchronisation-primitive failures; invalid parameter for bad
\* parameter, invalid component and undefined; external failure for a thread
\* or primitive that could not be torn down; EAGAIN for empty queue; unknown
\* for every other status. (A thread or primitive failure that is not a
\* teardown is allowed either of the two kinds the sentence leaves it.)
C21_TaxonomyAsStated ==
    fn.op = "error_mapping" =>
        CASE fn.svt_ret = "EB_ErrorNone" -> fn.ret = 0
          [] fn.svt_ret = "EB_ErrorInsufficientResources" -> fn.ret = AVERROR(ENOMEM)
          [] fn.svt_ret \in NotTeardown -> fn.ret \in {AVERROR(ENOMEM), AVERROR_UNKNOWN}
          [] fn.svt_ret \in {"EB_ErrorBadParameter", "EB_ErrorInvalidComponent",
                             "EB_ErrorUndefined"} -> fn.ret = AVERROR(EINVAL)
          [] fn.svt_ret \in {"EB_ErrorDestroyThreadFailed",
                             "EB_ErrorDestroySemaphoreFailed",
                             "EB_ErrorDestroyMutexFailed"} -> fn.ret = AVERROR_EXTERNAL
          [] fn.svt_ret = "EB_NoErrorEmptyQueue" -> fn.ret = AVERROR(EAGAIN)
          [] OTHER -> fn.ret = AVERROR_UNKNOWN

\* the six kinds of the taxonomy, as the codes error_mapping() returns
Kinds == {0, AVERROR(ENOMEM), AVERROR(EINVAL), AVERROR_EXTERNAL, AVERROR(EAGAIN),
          AVERROR_UNKNOWN}

\* C21: error_mapping() gives every status one of the six kinds: success for
\* no error; lack of resources for insufficient resources only; invalid
\* parameter for bad parameter, invalid component and undefined; external
\* failure for the six thread, semaphore and mutex failures it names (a
\* mutex that could not be created among them); EAGAIN for empty queue;
\* unknown for every other status, thread and semaphore creation included.
C21_Taxonomy ==
    fn.op = "error_mapping" =>
        /\ fn.ret \in Kinds
        /\ fn.ret = 0 <=> fn.svt_ret = "EB_ErrorNone"
        /\ fn.ret = AVERROR(ENOMEM) <=> fn.svt_ret = "EB_ErrorInsufficientResources"
        /\ fn.ret = AVERROR(EINVAL) <=>
              fn.svt_ret \in {"EB_ErrorBadParameter", "EB_ErrorInvalidComponent",
                              "EB_ErrorUndefined"}
        /\ fn.ret = AVERROR_EXTERNAL <=>
              fn.svt_ret \in {"EB_ErrorDestroyThreadFailed",
                              "EB_ErrorSemaphoreUnresponsive",
                              "EB_ErrorDestroySemaphoreFailed",
                              "EB_ErrorCreateMutexFailed",
                              "EB_ErrorMutexUnresponsive",
                              "EB_ErrorDestroyMutexFailed"}
        /\ fn.ret = AVERROR(EAGAIN) <=> fn.svt_ret = "EB_NoErrorEmptyQueue"

\* error_mapping() was applied to a mutex that could not be created
C21_Witness ==
    fn.op = "error_mapping" /\ fn.svt_ret = "EB_ErrorCreateMutexFailed"

DeepFmts == {"YUV420P10", "YUV422P10", "YUV444P10"}

\* C22: the first frame read into the zeroed descriptor leaves in nFilledLen
\* width * height (doubled above 8 bits) times 1.5 for 4:2:0, times 2 for
\* 4:2:2 and times 3 for 4:4:4, and the three strides are the frame's line
\* sizes, halved above 8 bits.
C22_FrameSizeAndStrides ==
    (fn.op = "read_in_data" /\ fn.reads = 1) =>
        LET deep == fn.avctx.pix_fmt \in DeepFmts
            luma == fn.avctx.width * fn.avctx.height * (IF deep THEN 2 ELSE 1)
            size == IF fn.avctx.pix_fmt \in {"YUV420P", "YUV420P10"}
                    THEN (luma * 3) \div 2
                    ELSE IF fn.avctx.pix_fmt \in {"YUV422P", "YUV422P10"}
                    THEN luma * 2 ELSE luma * 3
            want(l) == IF deep THEN l \div 2 ELSE l
        IN  /\ fn.in_buf.nFilledLen = U32(size)
            /\ fn.in_buf.yStride = want(fn.frame.linesize[1])
            /\ fn.in_buf.cbStride = want(fn.frame.linesize[2])
            /\ fn.in_buf.crStride = want(fn.frame.linesize[3])

\* C26: the packet filled from a descriptor has the descriptor's pts, dts and
\* length; its key flag is set exactly for IDR and I pictures, its disposable
\* flag exactly for non-reference pictures, and no other flag is set.
C26_PacketFields ==
    fn.op = "fill_packet" =>
        LET key == (fn.pkt.flags \div AV_PKT_FLAG_KEY) % 2 = 1
            disposable == (fn.pkt.flags \div AV_PKT_FLAG_DISPOSABLE) % 2 = 1
        IN  /\ fn.pkt.pts = fn.header.pts
            /\ fn.pkt.dts = fn.header.dts
            /\ fn.pkt.size = fn.header.nFilledLen
            /\ key <=> fn.header.sliceType \in {"EB_IDR_PICTURE", "EB_I_PICTURE"}
            /\ disposable <=> fn.header.sliceType = "EB_NON_REF_PICTURE"
            /\ fn.pkt.flags = (IF key THEN AV_PKT_FLAG_KEY ELSE 0)
                               + (IF disposable THEN AV_PKT_FLAG_DISPOSABLE ELSE 0)

\* a packet was filled from the descriptor of an I picture
C26_Witness ==
    /\ fn.op = "fill_packet"
    /\ fn.header.sliceType = "EB_I_PICTURE"
    /\ fn.header.dts # fn.header.pts

\* k * n as two halves, the upper one not cut to 16 bits
Times(k, n) ==
    [hi |-> k * (n \div 65536) + (k * (n % 65536)) \div 65536,
     lo |-> (k * (n % 65536)) % 65536]

\* C29: after k frames read into the descriptor since alloc_buffer() zeroed
\* it, nFilledLen is k times the size read_in_data() adds per frame.
C29_FilledLenAccumulates ==
    fn.op = "read_in_data" => fn.in_buf.nFilledLen = Times(fn.reads, FrameSize(fn.param))

\* C30: when the rc option is not zero, config_enc_params() leaves qmax and
\* qmin of the codec context in maxQpAllowed and minQpAllowed and the rc
\* option in rateControlMode.
C30_RateControlPassedThrough ==
    (fn.op = "config_enc_params" /\ fn.cfg_ret = "EB_ErrorNone" /\ fn.avctx.rc_mode # 0) =>
        /\ fn.param.rateControlMode = fn.avctx.rc_mode
        /\ fn.param.maxQpAllowed = fn.avctx.qmax
        /\ fn.param.minQpAllowed = fn.avctx.qmin

\* C24 as stated: a call that delivers a packet leaves the list as it was at
\* the poll less the first entry with the packet's pts, whatever the length
\* of that entry's payload, and with no such entry it leaves the list as it
\* was and the packet without side data.
C24_EvictionByMatch ==
    (last.op = "encode" /\ last.got_packet = 1) =>
        LET was == last.list_at_poll
            hits == {i \in DOMAIN was : was[i].pts = last.pkt.pts}
        IN  IF hits = {}
            THEN list = was /\ last.pkt.side_data = NoSide
            ELSE LET k == CHOOSE i \in hits : \A j \in hits : i <= j
                 IN  list = [j \in 1..(Len(was) - 1) |->
                               IF j < k THEN was[j] ELSE was[j + 1]]

PollsIn(trace) == {i \in DOMAIN trace : trace[i] = "EbH265GetPacket"}

\* C27: a poll is passed EOS_SENT exactly when the EOS picture has been
\* passed to the encoder, in an earlier call or earlier in this one, and
\* EOS_NOT_REACHED otherwise; no poll is passed EOS_RECEIVED.
C27_PollGetsFlushState ==
    (last.op = "encode" /\ last.polled) =>
        /\ last.eos_at_poll \in {EOS_NOT_REACHED, EOS_SENT}
        /\ last.eos_at_poll = EOS_SENT <=> eosSends >= 1

\* the call sent the EOS picture and then polled
C27_Witness ==
    /\ last.op = "encode" /\ last.polled /\ last.frame.null
    /\ SendsIn(last.trace) # {}
    /\ last.eos_at_poll = EOS_SENT

\* C28 as stated: a call makes at most one send and at most one poll, and
\* when it returns it reports either nothing ready (empty) or one packet.
C28_OneSendOnePollAsStated ==
    last.op = "encode" =>
        /\ Cardinality(SendsIn(last.trace)) <= 1
        /\ Cardinality(PollsIn(last.trace)) <= 1
        /\ last.returned => (last.ret = 0 /\ last.got_packet \in {0, 1})

\* C28: a call makes at most one send and at most one poll, and a call that
\* returns has delivered one packet, or none: with 0 after an empty poll, a
\* duplicate or a completed drain, or with the error of the packet
\* allocation that failed.
C28_OneSendOnePoll ==
    last.op = "encode" =>
        /\ Cardinality(SendsIn(last.trace)) <= 1
        /\ Cardinality(PollsIn(last.trace)) <= 1
        /\ last.polled <=> PollsIn(last.trace) # {}
        /\ last.returned =>
              \/ last.got_packet = 1 /\ last.ret = 0 /\ ~last.pkt.null /\ ~last.hdr.null
              \/ last.got_packet = 0 /\ last.ret = 0 /\ last.pkt.null /\ last.hdr.null
              \/ /\ last.got_packet = 0 /\ last.ret = AVERROR(ENOMEM) /\ last.pkt.null
                 /\ ~last.hdr.null

\* a call sent a frame, polled once and delivered a packet
C28_Witness ==
    /\ last.op = "encode" /\ ~last.frame.null
    /\ Cardinality(SendsIn(last.trace)) = 1
    /\ Cardinality(PollsIn(last.trace)) = 1
    /\ last.got_packet = 1

\* eos_flag, the input descriptor and the metadata list of instance x
CtxOf(x) ==
    IF peer.self = x THEN <<eos_flag, in_buf, list>>
    ELSE <<peer.saved.eos_flag, peer.saved.in_buf, peer.saved.list>>

C33_GuardReturnsBeforePoll ==
    [][ ( /\ last'.op = "encode"
          /\ eos_flag # EOS_RECEIVED
          /\ ~last'.frame.null
          /\ last'.frame.metadata # NoDict
          /\ \E i \in DOMAIN list : list[i].pts = last'.frame.pts )
        => ( /\ Cardinality(SendsIn(last'.trace)) = 1
             /\ Len(sent') = Len(sent) + 1
             /\ sent'[Len(sent')].pts = last'.frame.pts
             /\ PollsIn(last'.trace) = {}
             /\ Releases(last'.trace) = {}
             /\ ~last'.polled
             /\ last'.hdr = NullHdr
             /\ last'.returned /\ last'.ret = 0
             /\ last'.got_packet = 0
             /\ out' = out
             /\ eos_flag' = eos_flag
             /\ list' = list ) ]_vars

\* the call ended in the duplicate guard with the frame in the encoder's
\* queue, while the encoder had a packet it could have handed out
C33_Witness ==
    /\ EndedInGuard
    /\ last.frame.metadata # NoDict
    /\ last.got_packet = 0
    /\ Len(encQ) >= 2
    /\ encQ[Len(encQ)] = last.frame.pts
    /\ out = << >>

\* the last step's call fetched a descriptor and could not allocate the packet
AllocFailed(l) ==
    /\ l.op = "encode"
    /\ l.polled
    /\ ~l.hdr.null
    /\ "ff_alloc_packet2" \in {l.trace[i] : i \in DOMAIN l.trace}
    /\ "read:pBuffer" \notin {l.trace[i] : i \in DOMAIN l.trace}

\* C34 as stated: when the packet allocation fails after a descriptor was
\* fetched, the call returns the error, delivers no packet and leaves eos_flag
\* and the list as they were before the call.
C34_AllocFailureLeavesStateAsStated ==
    [][ AllocFailed(last')
        => ( /\ last'.ret = AVERROR(ENOMEM)
             /\ last'.got_packet = 0
             /\ out' = out
             /\ eos_flag' = eos_flag
             /\ list' = list ) ]_vars

\* C34: when the packet allocation fails after a descriptor was fetched, the
\* call returns the error and delivers no packet; eos_flag and the list are as
\* the submission half of the call left them (eos_flag is EOS_SENT when the
\* call sent the EOS picture, the list has the entry of the call's frame at
\* its tail when the call added one): the EOS flag of the descriptor is not
\* acted on and no entry is removed, that of the descriptor's pts included.
C34_AllocFailureLeavesState ==
    [][ AllocFailed(last')
        => ( /\ last'.ret = AVERROR(ENOMEM)
             /\ last'.got_packet = 0
             /\ out' = out
             /\ eos_flag' = IF last'.frame.null /\ eos_flag = EOS_NOT_REACHED
                             THEN EOS_SENT ELSE eos_flag
             /\ eos_flag' # EOS_RECEIVED
             /\ \/ list' = list
                \/ /\ ~last'.frame.null /\ last'.frame.metadata # NoDict
                   /\ Len(list') = Len(list) + 1
                   /\ SubSeq(list', 1, Len(list)) = list
                   /\ list'[Len(list')].pts = last'.frame.pts
             /\ \A i \in DOMAIN list : list[i].pts = last'.hdr.pts
                    => \E j \in DOMAIN list' : list'[j] = list[i] ) ]_vars

\* the allocation failed for the descriptor that carries EOS, while the entry
\* of its pts was pending
C34_Witness ==
    /\ AllocFailed(last)
    /\ HasEos(last.hdr.nFlags)
    /\ eos_flag = EOS_SENT
    /\ \E i \in DOMAIN list : list[i].pts = last.hdr.pts /\ list[i].size > 0

\* the calls of name in a trace
CallsOf(trace, name) == {i \in DOMAIN trace : trace[i] = name}

\* C35: over an eb_enc_init and the eb_enc_close that follows it, after a
\* failed init EbDeinitEncoder is called at most once, and only if
\* EbInitEncoder had succeeded, and EbDeinitHandle is called at most once, and
\* only if EbInitHandle had succeeded; after a successful init each is called
\* exactly once, EbDeinitEncoder before EbDeinitHandle.
C35_DeinitOnce ==
    [][ (last.op = "init" /\ last'.op = "close")
        => LET both == last.trace \o last'.trace
               enc == CallsOf(both, "EbDeinitEncoder")
               hnd == CallsOf(both, "EbDeinitHandle")
               encoderUp == /\ CallsOf(last.trace, "EbInitEncoder") # {}
                            /\ last.init_fail # "EbInitEncoder"
               handleUp == last.init_fail # "EbInitHandle"
           IN  IF state = "init_failed"
               THEN /\ Cardinality(enc) <= 1
                    /\ Cardinality(enc) = 1 => encoderUp
                    /\ Cardinality(hnd) <= 1
                    /\ Cardinality(hnd) = 1 => handleUp
               ELSE /\ Cardinality(enc) = 1
                    /\ Cardinality(hnd) = 1
                    /\ \A i \in enc, j \in hnd : i < j ]_vars

\* the count inserted by the most recent read, on any instance, before read k
RECURSIVE MostRecentCount(_)
MostRecentCount(k) ==
    IF k <= 1 THEN 0
    ELSE IF dmx.reads[k - 1].taken THEN dmx.reads[k - 1].count
    ELSE MostRecentCount(k - 1)

\* the count inserted by the most recent read on instance x before read k
RECURSIVE OwnRecentCount(_, _)
OwnRecentCount(x, k) ==
    IF k <= 1 THEN 0
    ELSE IF dmx.reads[k - 1].taken /\ dmx.reads[k - 1].inst = x
         THEN dmx.reads[k - 1].count
    ELSE OwnRecentCount(x, k - 1)

C32_InterpreterOnce ==
    /\ seg.inits <= 1
    /\ seg.finals <= 1
    /\ seg.last.op = "filter_frame"
          => /\ seg.last.ctx.did_init
             /\ seg.last.ctx.py_seg # "NULL"

\* the ROI lies inside the frame
InsideFrame(r) ==
    /\ 0 <= r.left /\ 0 <= r.top
    /\ r.width > 0 /\ r.height > 0
    /\ r.left + r.width <= RoiW
    /\ r.top + r.height <= RoiH

\* C36: for every rectangle passed to personid_callback on a context that
\* holds the full-frame default, the ROI it leaves lies inside the frame.
C36_RoiInsideFrame ==
    roi.fn.op = "personid_callback" => InsideFrame(roi.fn.out)

\* C37: the ROI written into the metadata of a frame is the full-frame
\* default or the complete result of the callback for that same frame, under
\* every interleaving of the callback with filter_frame.
C37_RoiOfOwnFrame ==
    \A k \in DOMAIN roi.meta :
        LET m == roi.meta[k]
        IN  \/ m.roi = DefaultRoi
            \/ m.roi = personid_callback(DefaultRoi, roi.rects[m.frame])

\* C38: after INIT_LIST_HEAD and any sequence of list_add_tail and list_del of
\* nodes in the list, the head and every node reachable from it have
\* next->prev and prev->next pointing back to them, the traversal from the
\* head visits the remaining nodes in the order they were added, and a removed
\* node is not reachable and has its links poisoned.
C38_ListWellFormed ==
    LET l == lst.ptr
        seen == list_for_each(l)
        reach == {ListHead} \cup {seen[i] : i \in DOMAIN seen}
    IN  /\ \A n \in reach : /\ l.next[n] \in reach
                             /\ l.prev[n] \in reach
                             /\ l.prev[l.next[n]] = n
                             /\ l.next[l.prev[n]] = n
        /\ seen = lst.order
        /\ \A n \in lst.removed : /\ n \notin reach
                                   /\ l.next[n] = LIST_POISON1
                                   /\ l.prev[n] = LIST_POISON2

\* a node was removed from between two others, which are still linked
C38_Witness ==
    /\ lst.order = <<"n1", "n3">>
    /\ lst.removed = {"n2"}
    /\ lst.ptr.next["n1"] = "n3"
    /\ lst.ptr.prev["n3"] = "n1"

====
